---- MODULE Spec2Model ----
(***************************************************************************)
(* Model of the anagram library (src/src/lib.rs): count, occurences,       *)
(* is_anagram and get_next, plus the driver loop of the module example     *)
(* that enumerates anagrams with get_next.                                 *)
(*                                                                         *)
(* A word is a sequence of Unicode scalar values (code points).  Rust      *)
(* stores it as UTF-8; chars() walks the code points and as_bytes() walks  *)
(* the encoded bytes, and the library mixes both views, so both are        *)
(* modelled.  Sequences are 1-based here and 0-based in the source: the    *)
(* source index k is position k + 1.                                       *)
(***************************************************************************)
EXTENDS Integers, Sequences, FiniteSets

\* Longest word handed to the one-argument operations and to the driver loop.
MaxWord == 4

\* Longest word handed to the two-argument operations.
MaxPair == 3

\* Width of usize.  The wrapped value of 0 - 1 exceeds every word length at
\* any width; 16 is the narrowest width Rust targets have.
UsizeBits == 16

\* The code points words are drawn from: 'a', 'b', 'c' (one byte each in
\* UTF-8) and U+00E9 (two bytes).
Chars == {97, 98, 99, 233}

\* Overflow checks on ("debug") or off ("release").
Builds == {"debug", "release"}

Words(n) == UNION {[1..k -> Chars] : k \in 0..n}

VARIABLES
  op,         \* the operation called last
  word,       \* first argument (word / left); current word of the driver loop
  input,      \* second argument (input / right)
  result,     \* u128 returned by count / occurences
  ok,         \* bool returned by is_anagram
  next_word,  \* String returned by get_next
  panicked,   \* the call panicked instead of returning
  start,      \* driver loop: the word the loop started from
  iters,      \* driver loop: iterations left of 0..count(&word)
  outputs     \* driver loop: the words printed so far

vars == <<op, word, input, result, ok, next_word, panicked,
          start, iters, outputs>>

----------------------------------------------------------------------------
(* Text representation *)

\* UTF-8 encoding of one code point below U+0800.
utf8(c) == IF c < 128 THEN <<c>> ELSE <<192 + (c \div 64), 128 + (c % 64)>>

RECURSIVE as_bytes(_)
as_bytes(w) == IF w = <<>> THEN <<>> ELSE utf8(Head(w)) \o as_bytes(Tail(w))

\* from_utf8(..).unwrap(): decodes, or panics on an invalid sequence.  Only
\* one- and two-byte forms can occur, since the bytes come from Chars.
RECURSIVE from_utf8(_)
from_utf8(b) ==
  IF b = <<>> THEN [panic |-> FALSE, val |-> <<>>]
  ELSE IF b[1] < 128
    THEN LET r == from_utf8(Tail(b))
         IN  [panic |-> r.panic, val |-> <<b[1]>> \o r.val]
  ELSE IF b[1] >= 194 /\ b[1] <= 223 /\ Len(b) >= 2 /\ b[2] >= 128 /\ b[2] <= 191
    THEN LET r == from_utf8(Tail(Tail(b)))
         IN  [panic |-> r.panic, val |-> <<(b[1] - 192) * 64 + (b[2] - 128)>> \o r.val]
  ELSE [panic |-> TRUE, val |-> <<>>]

\* slice.sort(): ascending order, by insertion.
RECURSIVE insert(_, _)
insert(x, s) ==
  IF s = <<>> THEN <<x>>
  ELSE IF x <= Head(s) THEN <<x>> \o s
  ELSE <<Head(s)>> \o insert(x, Tail(s))

RECURSIVE sort(_)
sort(s) == IF s = <<>> THEN <<>> ELSE insert(Head(s), sort(Tail(s)))

----------------------------------------------------------------------------
(* factorial and count *)

RECURSIVE factorial(_)
factorial(n) == IF n <= 1 THEN 1 ELSE n * factorial(n - 1)

\* Counter: occurrences of c among the chars of w.
char_counts(w, c) == Cardinality({k \in DOMAIN w : w[k] = c})

\* The loop of lines 65-70, from position k on.
RECURSIVE count_divisor(_, _, _, _)
count_divisor(w, k, seen, divisor) ==
  IF k > Len(w) THEN divisor
  ELSE IF w[k] \notin seen
    THEN count_divisor(w, k + 1, seen \cup {w[k]}, divisor * char_counts(w, w[k]))
  ELSE count_divisor(w, k + 1, seen, divisor)

\* No value reaches 2^128 for the word lengths of this model.
count(w) ==
  LET unique == {w[k] : k \in DOMAIN w}
      n == Len(w)
  IN  IF Cardinality(unique) = n
        THEN factorial(n)
        ELSE factorial(n) \div count_divisor(w, 1, {}, 1)

----------------------------------------------------------------------------
(* occurences *)

is_zero(cnt) == \A k \in 0..255 : cnt[k] = 0

\* The loops of lines 93-95 and 97-99: for val in from..len, add delta to
\* the counter of bytes[val]; indexing past the end panics.
RECURSIVE count_prefix(_, _, _, _, _)
count_prefix(st, bytes, val, len, delta) ==
  IF st.panic \/ val >= len THEN st
  ELSE IF val >= Len(bytes) THEN [st EXCEPT !.panic = TRUE]
  ELSE count_prefix([st EXCEPT !.count[bytes[val + 1]] = @ + delta],
                    bytes, val + 1, len, delta)

\* slide_step that never removes the character leaving the window.
slide_step_keep(st, wb, i, len_input) ==
  IF i >= Len(wb) \/ i - len_input >= Len(wb) THEN [st EXCEPT !.panic = TRUE]
  ELSE LET c1 == [st.count EXCEPT ![wb[i + 1]] = @ + 1]
       IN  [panic |-> FALSE, count |-> c1,
            result |-> st.result + (IF is_zero(c1) THEN 1 ELSE 0)]

\* One iteration of the loop of lines 104-112.
slide_step(st, wb, i, len_input) ==
  IF i >= Len(wb) \/ i - len_input >= Len(wb) THEN [st EXCEPT !.panic = TRUE]
  ELSE LET c1 == [st.count EXCEPT ![wb[i + 1]] = @ + 1]
           c2 == [c1 EXCEPT ![wb[i - len_input + 1]] = @ - 1]
       IN  [panic |-> FALSE, count |-> c2,
            result |-> st.result + (IF is_zero(c2) THEN 1 ELSE 0)]

RECURSIVE slide(_, _, _, _, _)
slide(st, wb, i, len_word, len_input) ==
  IF st.panic \/ i >= len_word THEN st
  ELSE slide(slide_step(st, wb, i, len_input), wb, i + 1, len_word, len_input)

occurences(w, inp) ==
  LET len_word == Len(w)
      len_input == Len(inp)
      st0 == [panic |-> FALSE, count |-> [k \in 0..255 |-> 0], result |-> 0]
      st1 == count_prefix(st0, as_bytes(w), 0, len_input, 1)
      st2 == count_prefix(st1, as_bytes(inp), 0, len_input, -1)
      st3 == IF st2.panic THEN st2
             ELSE [st2 EXCEPT !.result = IF is_zero(st2.count) THEN 1 ELSE 0]
      st4 == slide(st3, as_bytes(w), len_input, len_word, len_input)
  IN  [panic |-> st4.panic, val |-> IF st4.panic THEN 0 ELSE st4.result]

----------------------------------------------------------------------------
(* is_anagram *)

\* The loops of lines 123-129: add sign * (c as i128) for every char.
RECURSIVE sum_chars(_, _, _)
sum_chars(acc, w, sign) ==
  IF w = <<>> THEN acc ELSE sum_chars(acc + sign * Head(w), Tail(w), sign)

\* is_anagram whose second loop walks left again.
is_anagram_left_twice(left, right) ==
  IF Len(left) # Len(right) THEN FALSE
  ELSE sum_chars(sum_chars(0, left, 1), left, -1) = 0

is_anagram(left, right) ==
  IF Len(left) # Len(right) THEN FALSE
  ELSE sum_chars(sum_chars(0, left, 1), right, -1) = 0

----------------------------------------------------------------------------
(* get_next *)

Panic == [panic |-> TRUE, val |-> <<>>]

\* The loop of lines 146-151, 0-based i; -1 stands for an index panic.
RECURSIVE find_pivot(_, _)
find_pivot(wb, i) ==
  IF i <= 0 THEN 0
  ELSE IF i >= Len(wb) THEN -1
  ELSE IF wb[i + 1] > wb[i] THEN i
  ELSE find_pivot(wb, i - 1)

\* find_smallest without the test against word[i - 1].
RECURSIVE find_smallest_any(_, _, _, _, _)
find_smallest_any(wb, i, j, smallest, n) ==
  IF j >= n THEN smallest
  ELSE IF wb[j + 1] < wb[smallest + 1]
    THEN find_smallest_any(wb, i, j + 1, j, n)
  ELSE find_smallest_any(wb, i, j + 1, smallest, n)

\* The loop of lines 166-171.
RECURSIVE find_smallest(_, _, _, _, _)
find_smallest(wb, i, j, smallest, n) ==
  IF j >= n THEN smallest
  ELSE IF wb[j + 1] > wb[i] /\ wb[j + 1] < wb[smallest + 1]
    THEN find_smallest(wb, i, j + 1, j, n)
  ELSE find_smallest(wb, i, j + 1, smallest, n)

swap(s, a, b) == [s EXCEPT ![a] = s[b], ![b] = s[a]]

\* get_next returning the greatest permutation unchanged.
get_next_saturate(w, bld) ==
  LET n == Len(w)
      wb == as_bytes(w)
  IN  IF n = 0 /\ bld = "debug" THEN Panic
      ELSE
        LET i == find_pivot(wb, (n - 1) % (2 ^ UsizeBits))
        IN  IF i = -1 THEN Panic
            ELSE IF i = 0 THEN [panic |-> FALSE, val |-> w]
            ELSE
              LET smallest == find_smallest(wb, i, i + 1, i, n)
                  swapped == swap(wb, smallest + 1, i)
                  right_half == sort(SubSeq(swapped, i + 1, n))
              IN  from_utf8(SubSeq(swapped, 1, i) \o right_half)

get_next(w, bld) ==
  LET n == Len(w)
      wb == as_bytes(w)
  IN  IF n = 0 /\ bld = "debug" THEN Panic   \* subtract with overflow
      ELSE
        LET i == find_pivot(wb, (n - 1) % (2 ^ UsizeBits))
        IN  IF i = -1 THEN Panic
            ELSE IF i = 0 THEN [panic |-> FALSE, val |-> sort(w)]
            ELSE
              LET smallest == find_smallest(wb, i, i + 1, i, n)
                  swapped == swap(wb, smallest + 1, i)
                  right_half == sort(SubSeq(swapped, i + 1, n))
              IN  from_utf8(SubSeq(swapped, 1, i) \o right_half)

----------------------------------------------------------------------------
(* State machine.  The operations are pure: every behaviour is one call, or *)
(* one run of the driver loop, made from the fresh state.                  *)

Init ==
  /\ op = "init"
  /\ word = <<>>
  /\ input = <<>>
  /\ result = 0
  /\ ok = FALSE
  /\ next_word = <<>>
  /\ panicked = FALSE
  /\ start = <<>>
  /\ iters = 0
  /\ outputs = <<>>

CallCount ==
  /\ op = "init"
  /\ \E w \in Words(MaxWord) :
       /\ op' = "count"
       /\ word' = w
       /\ result' = count(w)
       /\ panicked' = FALSE
  /\ UNCHANGED <<input, ok, next_word, start, iters, outputs>>

CallOccurences ==
  /\ op = "init"
  /\ \E w \in Words(MaxPair), inp \in Words(MaxPair) :
       LET r == occurences(w, inp)
       IN  /\ op' = "occurences"
           /\ word' = w
           /\ input' = inp
           /\ result' = r.val
           /\ panicked' = r.panic
  /\ UNCHANGED <<ok, next_word, start, iters, outputs>>

CallIsAnagram ==
  /\ op = "init"
  /\ \E left \in Words(MaxPair), right \in Words(MaxPair) :
       /\ op' = "is_anagram"
       /\ word' = left
       /\ input' = right
       /\ ok' = is_anagram(left, right)
       /\ panicked' = FALSE
  /\ UNCHANGED <<result, next_word, start, iters, outputs>>

\* The build is not part of the state: either build's outcome may be seen.
CallGetNext ==
  /\ op = "init"
  /\ \E w \in Words(MaxWord), bld \in Builds :
       LET r == get_next(w, bld)
       IN  /\ op' = "get_next"
           /\ word' = w
           /\ next_word' = r.val
           /\ panicked' = r.panic
  /\ UNCHANGED <<input, result, ok, start, iters, outputs>>

\* let mut word = ...; for _ in 0..count(&word) {
LoopStart ==
  /\ op = "init"
  /\ \E w \in Words(MaxWord) :
       /\ op' = "loop"
       /\ word' = w
       /\ start' = w
       /\ iters' = count(w)
  /\ outputs' = <<>>
  /\ panicked' = FALSE
  /\ UNCHANGED <<input, result, ok, next_word>>

\* word = get_next(&word); println!("{}", word);
LoopStep ==
  /\ op = "loop"
  /\ ~panicked
  /\ iters > 0
  /\ \E bld \in Builds :
       LET r == get_next(word, bld)
       IN  IF r.panic
             THEN /\ panicked' = TRUE
                  /\ UNCHANGED <<word, iters, outputs>>
             ELSE /\ word' = r.val
                  /\ outputs' = Append(outputs, r.val)
                  /\ iters' = iters - 1
                  /\ panicked' = FALSE
  /\ UNCHANGED <<op, input, result, ok, next_word, start>>

Next ==
  \/ CallCount
  \/ CallOccurences
  \/ CallIsAnagram
  \/ CallGetNext
  \/ LoopStart
  \/ LoopStep

Spec == Init /\ [][Next]_vars

----------------------------------------------------------------------------
(* Vocabulary of the properties *)

SingleByte(w) == \A k \in DOMAIN w : w[k] < 128

HasMultiByte(w) == \E k \in DOMAIN w : w[k] >= 128

Occ(s, x) == Cardinality({k \in DOMAIN s : s[k] = x})

Elems(s) == {s[k] : k \in DOMAIN s}

SameMultiset(a, b) ==
  /\ Len(a) = Len(b)
  /\ \A x \in Elems(a) \cup Elems(b) : Occ(a, x) = Occ(b, x)

\* The distinct arrangements of the elements of s.
Perms(s) == {p \in [1..Len(s) -> Elems(s)] : SameMultiset(p, s)}

\* a < b in lexicographic order, for sequences of one length.
LexLess(a, b) ==
  \E k \in DOMAIN a : a[k] < b[k] /\ \A j \in 1..(k - 1) : a[j] = b[j]

NonIncreasing(s) == \A k \in 1..(Len(s) - 1) : s[k] >= s[k + 1]

NonDecreasing(s) == \A k \in 1..(Len(s) - 1) : s[k] <= s[k + 1]

RECURSIVE ProdFactorials(_, _)
ProdFactorials(S, s) ==
  IF S = {} THEN 1
  ELSE LET x == CHOOSE y \in S : TRUE
       IN  factorial(Occ(s, x)) * ProdFactorials(S \ {x}, s)

Multinomial(s) == factorial(Len(s)) \div ProdFactorials(Elems(s), s)

\* Start positions whose window of length Len(pat) is an arrangement of pat.
WindowMatches(s, pat) ==
  Cardinality({p \in 0..(Len(s) - Len(pat)) :
                 SameMultiset(SubSeq(s, p + 1, p + Len(pat)), pat)})

RECURSIVE CodeSum(_)
CodeSum(w) == IF w = <<>> THEN 0 ELSE Head(w) + CodeSum(Tail(w))

----------------------------------------------------------------------------
(* Properties *)

\* C1: for a word of single-byte characters, count(word) is the multinomial
\* coefficient n! / prod (occurrences of c)!, the number of distinct
\* arrangements of the word, also when a character occurs three times or more.
C1_CountIsMultinomial ==
  (op = "count" /\ SingleByte(word)) =>
    /\ result = Multinomial(word)
    /\ result = Cardinality(Perms(word))

\* C2: for single-byte word and pattern with len(pattern) <= len(word),
\* occurences returns the number of start positions whose window has the
\* character multiset of the pattern.
C2_OccurencesCountsWindows ==
  (op = "occurences" /\ SingleByte(word) /\ SingleByte(input)
     /\ Len(input) <= Len(word)) =>
    /\ ~panicked
    /\ result = WindowMatches(word, input)

C2_Witness ==
  /\ op = "occurences"
  /\ SingleByte(word) /\ SingleByte(input)
  /\ Len(input) = 2 /\ input[1] # input[2]
  /\ Len(word) = 3
  /\ ~panicked
  /\ result = 2

\* C3: is_anagram(left, right) is true exactly when left and right have the
\* same multiset of characters.
C3_IsAnagramExact ==
  op = "is_anagram" => (ok <=> SameMultiset(word, input))

\* C4: for a non-empty single-byte word that is not the greatest arrangement
\* of its characters, get_next returns a permutation of the word that is
\* strictly greater, with no permutation strictly between the two.
C4_NextIsSuccessor ==
  (op = "get_next" /\ word # <<>> /\ SingleByte(word) /\ ~NonIncreasing(word)) =>
    /\ ~panicked
    /\ SameMultiset(next_word, word)
    /\ LexLess(word, next_word)
    /\ ~\E q \in Perms(word) : LexLess(word, q) /\ LexLess(q, next_word)

C4_Witness ==
  /\ op = "get_next"
  /\ SingleByte(word)
  /\ Len(word) >= 3
  /\ ~NonIncreasing(word)
  /\ \E j, k \in DOMAIN word : j # k /\ word[j] = word[k]
  /\ ~panicked
  /\ next_word[1] # word[1]

\* C5: for a non-empty single-byte word that is the greatest arrangement of
\* its characters (non-increasing), get_next returns the characters sorted
\* ascending.
C5_GreatestWrapsToSmallest ==
  (op = "get_next" /\ word # <<>> /\ SingleByte(word) /\ NonIncreasing(word)) =>
    /\ ~panicked
    /\ SameMultiset(next_word, word)
    /\ NonDecreasing(next_word)

C5_Witness ==
  /\ op = "get_next"
  /\ SingleByte(word)
  /\ Len(word) >= 3
  /\ NonIncreasing(word)
  /\ ~panicked
  /\ next_word # word

\* C6: starting from the sorted arrangement of a non-empty single-byte word
\* and applying get_next count(word) times, the outputs contain every
\* distinct permutation of the word exactly once.
C6_CycleVisitsEachOnce ==
  (op = "loop" /\ iters = 0 /\ start # <<>> /\ SingleByte(start)
     /\ NonDecreasing(start)) =>
    /\ ~panicked
    /\ \A p \in Perms(start) : Occ(outputs, p) = 1

\* C7: when the pattern is longer than the word, occurences completes and
\* returns 0.
C7_LongPatternGivesZero ==
  (op = "occurences" /\ Len(input) > Len(word)) =>
    (~panicked /\ result = 0)

\* C8: get_next of the empty word does not panic and returns the empty word.
C8_EmptyWordNoPanic ==
  (op = "get_next" /\ word = <<>>) =>
    (~panicked /\ next_word = <<>>)

\* C9: for word and pattern containing multi-byte characters, occurences
\* does not fail and counts the byte positions whose window of
\* bytelen(pattern) bytes has the byte multiset of the pattern.
C9_OccurencesPerByte ==
  (op = "occurences" /\ HasMultiByte(word) /\ HasMultiByte(input)) =>
    /\ ~panicked
    /\ result = WindowMatches(as_bytes(word), as_bytes(input))

====
